---- MODULE Spec2Model ----
(***************************************************************************)
(* Model of the AI-Voice-Assistant back end: the ChatHistory message log   *)
(* (app/services/chat_history.py), the AIService responder                 *)
(* (app/services/ai_service.py) and the request handlers of app/main.py.   *)
(*                                                                         *)
(* Python strings are sequences of one-character strings.  A Python value *)
(* that may be None is a record [t |-> "str" | "none", v |-> characters]. *)
(* A timestamp (datetime.now().isoformat()) is the clock reading, an       *)
(* integer number of seconds.                                              *)
(***************************************************************************)
EXTENDS Integers, Sequences, FiniteSets, TLC

VARIABLES
    messages,            \* ChatHistory.messages
    max_messages,        \* ChatHistory.max_messages
    now,                 \* last reading of datetime.now()
    openai_api_key,      \* AIService.openai_api_key is set (truthy)
    perplexity_api_key,  \* AIService.perplexity_api_key is set (truthy)
    ai_provider,         \* AIService.ai_provider
    call,                \* the operation that ran last, with its arguments
    ret,                 \* what that operation returned (or that it raised)
    issuedMax,           \* history: greatest id add_message has returned so far
    appends,             \* history: number of add_message calls so far
    pc,                  \* per thread: position inside add_message
    local                \* per thread: message_obj of the add_message in progress

vars == <<messages, max_messages, now, openai_api_key, perplexity_api_key,
          ai_provider, call, ret, issuedMax, appends, pc, local>>

logVars == <<messages, max_messages, now, issuedMax, appends>>
aiVars == <<openai_api_key, perplexity_api_key, ai_provider>>
threadVars == <<pc, local>>

(***************************************************************************)
(* Bounds of the model.                                                    *)
(***************************************************************************)
MaxCap == 2          \* capacities 1..MaxCap are tried for ChatHistory(max_messages)
MaxClock == 1        \* the clock takes the values 0..MaxClock
MaxPage == 2         \* limit and offset range over -MaxPage..MaxPage
MaxHeld == 2         \* the handlers' log (capacity 100) is explored up to this length
MaxAppends == 4      \* add_message calls on the fresh log of the append-only scenario

DefaultMaxMessages == 100

Threads == {1, 2}

(***************************************************************************)
(* Python values and strings.                                              *)
(***************************************************************************)
None == [t |-> "none", v |-> <<>>]
Str(s) == [t |-> "str", v |-> s]
IsNone(x) == x.t = "none"

Uppers == <<"A","B","C","D","E","F","G","H","I","J","K","L","M",
            "N","O","P","Q","R","S","T","U","V","W","X","Y","Z">>
Lowers == <<"a","b","c","d","e","f","g","h","i","j","k","l","m",
            "n","o","p","q","r","s","t","u","v","w","x","y","z">>

LowerChar(c) ==
    IF \E i \in 1..Len(Uppers) : Uppers[i] = c
    THEN Lowers[CHOOSE i \in 1..Len(Uppers) : Uppers[i] = c]
    ELSE c

\* str.lower()
Lower(s) == [i \in 1..Len(s) |-> LowerChar(s[i])]

\* the Python operator  needle in hay  on strings
Contains(hay, needle) ==
    \E i \in 0..(Len(hay) - Len(needle)) : SubSeq(hay, i + 1, i + Len(needle)) = needle

Hi == <<"H", "i">>
OK == <<"O", "K">>

\* texts the callers pass
Texts == {<<>>, Hi}
\* query strings of search_messages
Queries == {<<>>, <<"h", "I">>, <<"o", "k">>}
\* content of a successful provider completion
ProviderReplies == {OK}

(***************************************************************************)
(* Results and calls, as uniform records.                                  *)
(***************************************************************************)
NoMsg == [id |-> 0, timestamp |-> 0, user |-> None, assistant |-> None, duration |-> 0]

Ret(kind, msgs, val, nums) == [kind |-> kind, msgs |-> msgs, val |-> val, nums |-> nums]
RetNone == Ret("None", <<>>, None, <<>>)
RetRaise == Ret("raise", <<>>, None, <<>>)
RetBool(b) == Ret(IF b THEN "True" ELSE "False", <<>>, None, <<>>)
RetMsg(m) == Ret("message", <<m>>, None, <<>>)
RetList(ms) == Ret("list", ms, None, <<>>)
RetVal(x) == Ret("value", <<>>, x, <<>>)
RetTime(t) == Ret("timestamp", <<>>, None, <<t>>)

Call(name, vals, ints) == [name |-> name, vals |-> vals, ints |-> ints]

(***************************************************************************)
(* ChatHistory                                                             *)
(***************************************************************************)
MessageObj(msgs, t, u, a) ==
    [id |-> Len(msgs) + 1, timestamp |-> t, user |-> u, assistant |-> a, duration |-> 0]

EvictLate(msgs, cap) ==
    IF Len(msgs) > cap + 1 THEN Tail(msgs) ELSE msgs

EvictNewest(msgs, cap) ==
    IF Len(msgs) > cap THEN SubSeq(msgs, 1, Len(msgs) - 1) ELSE msgs

\* if len(self.messages) > self.max_messages: self.messages.pop(0)
Evict(msgs, cap) ==
    IF Len(msgs) > cap THEN Tail(msgs) ELSE msgs

\* the list after add_message
Added(msgs, cap, t, u, a) == Evict(Append(msgs, MessageObj(msgs, t, u, a)), cap)

\* self.messages[-1] if self.messages else None
LastMessage(msgs) == IF Len(msgs) > 0 THEN RetMsg(msgs[Len(msgs)]) ELSE RetNone

\* last['timestamp'] if last else None
LastTimestamp(msgs) ==
    LET last == LastMessage(msgs)
    IN IF last.kind = "message" THEN RetTime(last.msgs[1].timestamp) ELSE RetNone

\* a slice bound as list.__getitem__ normalises it
SliceIndex(i, n) ==
    IF i < 0 THEN (IF i + n < 0 THEN 0 ELSE i + n)
    ELSE (IF i > n THEN n ELSE i)

\* self.messages[offset:offset+limit]
Slice(msgs, limit, offset) ==
    LET start == SliceIndex(offset, Len(msgs))
        stop == SliceIndex(offset + limit, Len(msgs))
    IN IF start < stop THEN SubSeq(msgs, start + 1, stop) ELSE <<>>

\* the test of search_messages on one message: "raise", "match" or "skip"
SearchTest(msg, query_lower) ==
    IF IsNone(msg.user) THEN "raise"
    ELSE IF Contains(Lower(msg.user.v), query_lower) THEN "match"
    ELSE IF IsNone(msg.assistant) THEN "raise"
    ELSE IF Contains(Lower(msg.assistant.v), query_lower) THEN "match"
    ELSE "skip"

\* the loop of search_messages from index i on, results accumulated so far
RECURSIVE SearchLoop(_, _, _, _)
SearchLoop(msgs, query_lower, i, results) ==
    IF i > Len(msgs) THEN RetList(results)
    ELSE LET test == SearchTest(msgs[i], query_lower)
         IN IF test = "raise" THEN RetRaise
            ELSE SearchLoop(msgs, query_lower, i + 1,
                            IF test = "match" THEN Append(results, msgs[i]) ELSE results)

Search(msgs, query) == SearchLoop(msgs, Lower(query), 1, <<>>)

RemoveAt(msgs, i) == SubSeq(msgs, 1, i - 1) \o SubSeq(msgs, i + 1, Len(msgs))

RECURSIVE DeleteLastLoop(_, _, _)
DeleteLastLoop(msgs, message_id, i) ==
    IF i > Len(msgs) THEN [msgs |-> msgs, found |-> FALSE]
    ELSE IF msgs[Len(msgs) + 1 - i].id = message_id
         THEN [msgs |-> RemoveAt(msgs, Len(msgs) + 1 - i), found |-> TRUE]
         ELSE DeleteLastLoop(msgs, message_id, i + 1)

\* the loop of delete_message from index i on
RECURSIVE DeleteLoop(_, _, _)
DeleteLoop(msgs, message_id, i) ==
    IF i > Len(msgs) THEN [msgs |-> msgs, found |-> FALSE]
    ELSE IF msgs[i].id = message_id
         THEN [msgs |-> RemoveAt(msgs, i), found |-> TRUE]
         ELSE DeleteLoop(msgs, message_id, i + 1)

\* sum(len(m['assistant']) for m in self.messages); -1 stands for the TypeError
RECURSIVE ResponseLength(_, _, _)
ResponseLength(msgs, i, total) ==
    IF i > Len(msgs) THEN total
    ELSE IF IsNone(msgs[i].assistant) THEN -1
         ELSE ResponseLength(msgs, i + 1, total + Len(msgs[i].assistant.v))

Summary(msgs) ==
    IF Len(msgs) = 0 THEN Ret("summary", <<>>, None, <<0, 0>>)
    ELSE LET total_messages == Len(msgs)
             total_response_length == ResponseLength(msgs, 1, 0)
         IN IF total_response_length < 0 THEN RetRaise
            ELSE Ret("summary", <<>>, None,
                     <<total_messages, total_response_length \div total_messages,
                       msgs[1].timestamp, msgs[Len(msgs)].timestamp>>)

\* the readings datetime.now() can give after the reading t0
ClockAfter(t0) == {t \in {t0, t0 + 1} : t <= MaxClock}
Clock == ClockAfter(now)

add_message(t, u, a) ==
    /\ messages' = Added(messages, max_messages, t, u, a)
    /\ now' = t
    /\ issuedMax' = IF Len(messages) + 1 > issuedMax THEN Len(messages) + 1 ELSE issuedMax
    /\ UNCHANGED max_messages

AddMessage(u, a) ==
    /\ \E t \in Clock :
         /\ add_message(t, u, a)
         /\ ret' = RetMsg(MessageObj(messages, t, u, a))
    /\ call' = Call("add_message", <<u, a>>, <<>>)
    /\ UNCHANGED <<appends, aiVars, threadVars>>

Read(name, vals, ints, result) ==
    /\ call' = Call(name, vals, ints)
    /\ ret' = result
    /\ UNCHANGED <<logVars, aiVars, threadVars>>

GetLastMessage == Read("get_last_message", <<>>, <<>>, LastMessage(messages))

GetLastTimestamp == Read("get_last_timestamp", <<>>, <<>>, LastTimestamp(messages))

GetAllMessages == Read("get_all_messages", <<>>, <<>>, RetList(messages))

GetMessages(limit, offset) ==
    Read("get_messages", <<>>, <<limit, offset>>, RetList(Slice(messages, limit, offset)))

SearchMessages(query) ==
    Read("search_messages", <<Str(query)>>, <<>>, Search(messages, query))

GetConversationSummary ==
    Read("get_conversation_summary", <<>>, <<>>, Summary(messages))

Clear ==
    /\ messages' = <<>>
    /\ call' = Call("clear", <<>>, <<>>)
    /\ ret' = RetNone
    /\ UNCHANGED <<max_messages, now, issuedMax, appends, aiVars, threadVars>>

DeleteMessage(message_id) ==
    LET r == DeleteLoop(messages, message_id, 1)
    IN /\ messages' = r.msgs
       /\ ret' = RetBool(r.found)
       /\ call' = Call("delete_message", <<>>, <<message_id>>)
       /\ UNCHANGED <<max_messages, now, issuedMax, appends, aiVars, threadVars>>

Ids == 1..(MaxCap + 2)
PageArgs == (0 - MaxPage)..MaxPage

\* ChatHistory(max_messages) with a positive capacity, AIService() without keys
Init ==
    /\ messages = <<>>
    /\ max_messages \in 1..MaxCap
    /\ now = 0
    /\ openai_api_key = FALSE
    /\ perplexity_api_key = FALSE
    /\ ai_provider = "perplexity"
    /\ call = Call("__init__", <<>>, <<>>)
    /\ ret = RetNone
    /\ issuedMax = 0
    /\ appends = 0
    /\ pc = [t \in Threads |-> "idle"]
    /\ local = [t \in Threads |-> NoMsg]

Next ==
    \/ \E u \in Texts, a \in Texts : AddMessage(Str(u), Str(a))
    \/ GetLastMessage
    \/ GetLastTimestamp
    \/ GetAllMessages
    \/ \E q \in Queries : SearchMessages(q)
    \/ Clear
    \/ \E id \in Ids : DeleteMessage(id)
    \/ GetConversationSummary

Spec == Init /\ [][Next]_vars

\* the log under its mutators and get_messages
NextPage ==
    \/ \E u \in Texts, a \in Texts : AddMessage(Str(u), Str(a))
    \/ Clear
    \/ \E id \in Ids : DeleteMessage(id)
    \/ \E limit \in PageArgs, offset \in PageArgs : GetMessages(limit, offset)

SpecPage == Init /\ [][NextPage]_vars

\* a fresh log that only receives add_message calls, read with get_all_messages
FifoAppend(u, a) ==
    /\ appends < MaxAppends
    /\ \E t \in Clock :
         /\ add_message(t, u, a)
         /\ ret' = RetMsg(MessageObj(messages, t, u, a))
    /\ appends' = appends + 1
    /\ call' = Call("add_message", <<u, a>>, <<>>)
    /\ UNCHANGED <<aiVars, threadVars>>

NextFifo ==
    \/ \E u \in Texts, a \in Texts : FifoAppend(Str(u), Str(a))
    \/ GetAllMessages

SpecFifo == Init /\ [][NextFifo]_vars

(***************************************************************************)
(* AIService                                                               *)
(***************************************************************************)
Raised == [t |-> "raise", v |-> <<>>]

Outcomes == {"ok", "status", "exception"}
Providers == {"perplexity", "openai", "other"}

Digits == <<"0", "1", "2", "3", "4", "5", "6", "7", "8", "9">>
TwoDigits(n) == <<Digits[(n \div 10) + 1], Digits[(n % 10) + 1]>>

\* datetime.now().strftime("%H:%M:%S") of a clock reading in seconds
TimeStr(t) ==
    TwoDigits((t \div 3600) % 24) \o <<":">> \o TwoDigits((t \div 60) % 60)
        \o <<":">> \o TwoDigits(t % 60)

KwHello == <<"h", "e", "l", "l", "o">>
KwHi == <<"h", "i">>
KwHowAreYou == <<"h", "o", "w", " ", "a", "r", "e", " ", "y", "o", "u">>
KwWeather == <<"w", "e", "a", "t", "h", "e", "r">>
KwTime == <<"t", "i", "m", "e">>

ReplyHello ==
    <<"H", "e", "l", "l", "o", "!", " ", "H", "o", "w", " ", "c", "a", "n", " ", "I",
      " ", "a", "s", "s", "i", "s", "t", " ", "y", "o", "u", " ", "t", "o", "d", "a",
      "y", "?">>
ReplyHowAreYou ==
    <<"I", " ", "a", "m", " ", "f", "u", "n", "c", "t", "i", "o", "n", "i", "n", "g",
      " ", "w", "e", "l", "l", ".", " ", "T", "h", "a", "n", "k", " ", "y", "o", "u",
      " ", "f", "o", "r", " ", "a", "s", "k", "i", "n", "g", "!">>
ReplyWeather ==
    <<"I", " ", "w", "o", "u", "l", "d", " ", "n", "e", "e", "d", " ", "A", "P", "I",
      " ", "a", "c", "c", "e", "s", "s", " ", "t", "o", " ", "c", "h", "e", "c", "k",
      " ", "c", "u", "r", "r", "e", "n", "t", " ", "w", "e", "a", "t", "h", "e", "r",
      " ", "c", "o", "n", "d", "i", "t", "i", "o", "n", "s", ".">>
ReplyTimePrefix ==
    <<"T", "h", "e", " ", "c", "u", "r", "r", "e", "n", "t", " ", "t", "i", "m", "e",
      " ", "i", "s", " ">>
ReplyEchoPrefix ==
    <<"I", " ", "u", "n", "d", "e", "r", "s", "t", "a", "n", "d", " ", "y", "o", "u",
      " ", "s", "a", "i", "d", ":", " ", "\"">>
ReplyEchoSuffix ==
    <<"\"", ".", " ", "P", "l", "e", "a", "s", "e", " ", "c", "o", "n", "f", "i",
      "g", "u", "r", "e", " ", "a", "n", " ", "A", "I", " ", "A", "P", "I", " ", "t",
      "o", " ", "g", "e", "t", " ", "m", "o", "r", "e", " ", "d", "e", "t", "a", "i",
      "l", "e", "d", " ", "r", "e", "s", "p", "o", "n", "s", "e", "s", ".">>

\* the branch of _get_fallback_response that reads the clock
FallbackReadsClock(user_message) ==
    /\ ~IsNone(user_message)
    /\ LET message_lower == Lower(user_message.v)
       IN /\ ~Contains(message_lower, KwHello)
          /\ ~Contains(message_lower, KwHi)
          /\ ~Contains(message_lower, KwHowAreYou)
          /\ ~Contains(message_lower, KwWeather)
          /\ Contains(message_lower, KwTime)

\* _get_fallback_response; None has no lower(), which raises
FallbackResponse(user_message, t) ==
    IF IsNone(user_message) THEN Raised
    ELSE LET message_lower == Lower(user_message.v)
         IN IF Contains(message_lower, KwHello) \/ Contains(message_lower, KwHi)
            THEN Str(ReplyHello)
            ELSE IF Contains(message_lower, KwHowAreYou) THEN Str(ReplyHowAreYou)
            ELSE IF Contains(message_lower, KwWeather) THEN Str(ReplyWeather)
            ELSE IF Contains(message_lower, KwTime)
                 THEN Str(ReplyTimePrefix \o TimeStr(t) \o <<".">>)
            ELSE Str(ReplyEchoPrefix \o user_message.v \o ReplyEchoSuffix)

\* _get_perplexity_response: the content on status 200, None otherwise
PerplexityResponse(outcome, reply) ==
    IF outcome = "ok" THEN Str(reply) ELSE None

\* _get_openai_response: the content, None when the library raises
OpenAIResponse(outcome, reply) ==
    IF outcome = "ok" THEN Str(reply) ELSE None

\* the branch get_response takes
UsesPerplexity == ai_provider = "perplexity" /\ perplexity_api_key
UsesOpenAI == ~UsesPerplexity /\ openai_api_key
UsesFallback == ~UsesPerplexity /\ ~UsesOpenAI

\* the body of the try block of get_response
Respond(user_message, outcome, reply, t) ==
    IF UsesPerplexity THEN PerplexityResponse(outcome, reply)
    ELSE IF UsesOpenAI THEN OpenAIResponse(outcome, reply)
    ELSE FallbackResponse(user_message, t)

GetResponseUncaught(user_message, outcome, reply, t) ==
    Respond(user_message, outcome, reply, t)

\* get_response: except Exception: return None
GetResponseVal(user_message, outcome, reply, t) ==
    LET r == Respond(user_message, outcome, reply, t)
    IN IF r = Raised THEN None ELSE r

\* what get_response hands to its caller
GetResponseRet(x) == IF x = Raised THEN RetRaise ELSE RetVal(x)

\* the clock after get_response, which reads it in one fallback branch only
ClockAfterResponse(user_message, t) ==
    IF UsesFallback /\ FallbackReadsClock(user_message) THEN t ELSE now

GetResponse(user_message, outcome, reply) ==
    /\ \E t \in Clock :
         /\ ret' = GetResponseRet(GetResponseVal(user_message, outcome, reply, t))
         /\ now' = ClockAfterResponse(user_message, t)
    /\ call' = Call("get_response", <<user_message, Str(<<outcome>>), Str(reply)>>, <<>>)
    /\ UNCHANGED <<messages, max_messages, issuedMax, appends, aiVars, threadVars>>

SetAiProvider(provider) ==
    /\ ai_provider' = IF provider \in {"perplexity", "openai"} THEN provider ELSE ai_provider
    /\ call' = Call("set_ai_provider", <<Str(<<provider>>)>>, <<>>)
    /\ ret' = RetNone
    /\ UNCHANGED <<logVars, openai_api_key, perplexity_api_key, threadVars>>

\* texts handed to get_response: what the handlers pass, None included
AITexts == {None, Str(<<>>), Str(Hi), Str(<<"T", "i", "m", "e">>), Str(OK)}

\* AIService() with the keys the environment gives
InitAI ==
    /\ messages = <<>>
    /\ max_messages = DefaultMaxMessages
    /\ now = 0
    /\ openai_api_key \in BOOLEAN
    /\ perplexity_api_key \in BOOLEAN
    /\ ai_provider = "perplexity"
    /\ call = Call("__init__", <<>>, <<>>)
    /\ ret = RetNone
    /\ issuedMax = 0
    /\ appends = 0
    /\ pc = [t \in Threads |-> "idle"]
    /\ local = [t \in Threads |-> NoMsg]

NextAI ==
    \/ \E user_message \in AITexts, outcome \in Outcomes, reply \in ProviderReplies :
         GetResponse(user_message, outcome, reply)
    \/ \E provider \in Providers : SetAiProvider(provider)

SpecAI == InitAI /\ [][NextAI]_vars

(***************************************************************************)
(* Request handlers of main.py, on the shared ChatHistory() and AIService() *)
(***************************************************************************)
\* what voice_service.transcribe_audio gives: the recognised text, or None
Transcripts == {None, Str(Hi)}

\* chat(): POST /api/chat
Chat(user_message, outcome, reply) ==
    /\ call' = Call("chat", <<Str(user_message), Str(<<outcome>>), Str(reply)>>, <<>>)
    /\ IF user_message = <<>>
       THEN /\ ret' = Ret("400", <<>>, None, <<>>)
            /\ UNCHANGED logVars
       ELSE /\ Len(messages) < MaxHeld
            /\ \E t1 \in Clock :
                 LET ai_response == GetResponseVal(Str(user_message), outcome, reply, t1)
                     tr == ClockAfterResponse(Str(user_message), t1)
                 IN \E t2 \in ClockAfter(tr) :
                      /\ add_message(t2, Str(user_message), ai_response)
                      /\ ret' = Ret("200", <<>>, ai_response, LastTimestamp(messages').nums)
            /\ UNCHANGED appends
    /\ UNCHANGED <<aiVars, threadVars>>

\* handle_audio_stream(): socket event audio_stream
HandleAudioStream(text, outcome, reply, tts_ok) ==
    /\ Len(messages) < MaxHeld
    /\ call' = Call("audio_stream", <<text, Str(<<outcome>>), Str(reply)>>,
                    <<IF tts_ok THEN 1 ELSE 0>>)
    /\ \E t1 \in Clock :
         LET ai_response == GetResponseVal(text, outcome, reply, t1)
             tr == ClockAfterResponse(text, t1)
         IN \E t2 \in ClockAfter(tr) :
              /\ add_message(t2, text, ai_response)
              /\ ret' = Ret(IF tts_ok THEN "response" ELSE "response without audio",
                            <<>>, ai_response, LastTimestamp(messages').nums)
    /\ UNCHANGED <<appends, aiVars, threadVars>>

\* get_chat_history(): GET /api/chat-history
GetChatHistory == Read("get_chat_history", <<>>, <<>>, RetList(messages))

\* clear_history(): POST /api/clear-history
ClearHistory ==
    /\ messages' = <<>>
    /\ call' = Call("clear_history", <<>>, <<>>)
    /\ ret' = Ret("200", <<>>, None, <<>>)
    /\ UNCHANGED <<max_messages, now, issuedMax, appends, aiVars, threadVars>>

\* the handlers, and the log's operations on the states the handlers produce
NextApp ==
    \/ \E user_message \in Texts, outcome \in Outcomes, reply \in ProviderReplies :
         Chat(user_message, outcome, reply)
    \/ \E text \in Transcripts, outcome \in Outcomes, reply \in ProviderReplies,
          tts_ok \in BOOLEAN :
         HandleAudioStream(text, outcome, reply, tts_ok)
    \/ GetChatHistory
    \/ ClearHistory
    \/ GetLastMessage
    \/ GetLastTimestamp
    \/ GetAllMessages
    \/ \E q \in Queries : SearchMessages(q)
    \/ \E id \in Ids : DeleteMessage(id)
    \/ GetConversationSummary

SpecApp == InitAI /\ [][NextApp]_vars

(***************************************************************************)
(* Handlers running on several threads: add_message is not one step.  The  *)
(* interpreter switches threads between the statements of lines 32-47.     *)
(***************************************************************************)
\* lines 32-38: message_obj is built from the length read now
ConcBuild(th, u, a) ==
    /\ pc[th] = "idle"
    /\ \E t \in Clock :
         /\ local' = [local EXCEPT ![th] = MessageObj(messages, t, u, a)]
         /\ now' = t
    /\ pc' = [pc EXCEPT ![th] = "built"]
    /\ UNCHANGED <<messages, max_messages, issuedMax, appends, aiVars, call, ret>>

\* line 40: self.messages.append(message_obj)
ConcAppend(th) ==
    /\ pc[th] = "built"
    /\ messages' = Append(messages, local[th])
    /\ pc' = [pc EXCEPT ![th] = "appended"]
    /\ UNCHANGED <<max_messages, now, issuedMax, appends, aiVars, call, ret, local>>

\* lines 43-44: the length test and pop(0)
ConcEvict(th) ==
    /\ pc[th] = "appended"
    /\ messages' = Evict(messages, max_messages)
    /\ pc' = [pc EXCEPT ![th] = "evicted"]
    /\ UNCHANGED <<max_messages, now, issuedMax, appends, aiVars, call, ret, local>>

\* line 47: return message_obj
ConcReturn(th) ==
    /\ pc[th] = "evicted"
    /\ pc' = [pc EXCEPT ![th] = "idle"]
    /\ call' = Call("add_message", <<local[th].user, local[th].assistant>>, <<th>>)
    /\ ret' = RetMsg(local[th])
    /\ issuedMax' = IF local[th].id > issuedMax THEN local[th].id ELSE issuedMax
    /\ local' = [local EXCEPT ![th] = NoMsg]
    /\ UNCHANGED <<messages, max_messages, now, appends, aiVars>>

\* get_chat_history on a thread that is in no other call: self.messages.copy()
ConcRead(th) ==
    /\ pc[th] = "idle"
    /\ call' = Call("get_all_messages", <<>>, <<th>>)
    /\ ret' = RetList(messages)
    /\ UNCHANGED <<logVars, aiVars, threadVars>>

NextConc ==
    \/ \E th \in Threads, a \in ProviderReplies : ConcBuild(th, Str(Hi), Str(a))
    \/ \E th \in Threads : ConcAppend(th)
    \/ \E th \in Threads : ConcEvict(th)
    \/ \E th \in Threads : ConcReturn(th)
    \/ \E th \in Threads : ConcRead(th)

SpecConc == Init /\ [][NextConc]_vars

(***************************************************************************)
(* Properties                                                              *)
(***************************************************************************)
Min(a, b) == IF a < b THEN a ELSE b
Max(a, b) == IF a > b THEN a ELSE b

\* C1: after any add_message, delete_message or clear on a log of positive
\* capacity, the number of held messages is at most the capacity.
CapacityBound == Len(messages) <= max_messages

\* an add_message that evicted: the log was full and is full again
CapacityBoundWitness ==
    /\ call.name = "add_message"
    /\ Len(messages) = max_messages
    /\ ret.msgs[1].id = max_messages + 1

\* C2: every id add_message assigns is strictly greater than every id an
\* earlier add_message assigned, whatever evictions, deletions and clears
\* happened in between.
IdsStrictlyIncreasing ==
    [][call'.name = "add_message" => ret'.msgs[1].id > issuedMax]_vars

\* C3: after N > capacity appends on a fresh log and nothing else, the log
\* holds capacity messages whose ids are N-capacity+1 .. N, oldest first.
FifoWindowIds ==
    (call.name = "get_all_messages" /\ appends > max_messages) =>
        /\ Len(ret.msgs) = max_messages
        /\ \A i \in 1..Len(ret.msgs) : ret.msgs[i].id = appends - max_messages + i

\* C4: delete_message(id) with an id some message holds removes the first
\* message with that id and nothing else, keeps the order of the others and
\* returns True; with an id no message holds it returns False and changes
\* nothing.
DeleteRemovesFirstOnly ==
    [][call'.name = "delete_message" =>
        LET id == call'.ints[1]
        IN IF \E i \in 1..Len(messages) : messages[i].id = id
           THEN /\ ret'.kind = "True"
                /\ Len(messages') = Len(messages) - 1
                /\ \E i \in 1..Len(messages) :
                     /\ messages[i].id = id
                     /\ \A j \in 1..(i - 1) : messages[j].id # id /\ messages'[j] = messages[j]
                     /\ \A j \in i..Len(messages') : messages'[j] = messages[j + 1]
           ELSE /\ ret'.kind = "False"
                /\ messages' = messages]_vars

\* a deletion that returned True while a later message with the same id stays
DeleteRemovesFirstOnlyWitness ==
    /\ call.name = "delete_message"
    /\ ret.kind = "True"
    /\ \E i \in 1..Len(messages) : messages[i].id = call.ints[1]

\* C5: no operation of the log raises in a state the request handlers can
\* produce, a stored None reply included.
ObservedOps == {"get_last_message", "get_last_timestamp", "get_all_messages",
           "search_messages", "delete_message", "get_conversation_summary",
           "chat", "audio_stream", "get_chat_history", "clear_history"}

NoLogOperationRaises == call.name \in ObservedOps => ret.kind # "raise"

\* C6: get_last_message right after add_message returns the message that
\* add_message returned, and get_last_timestamp its timestamp, eviction or not.
AppendThenLast ==
    [][/\ (call.name = "add_message" /\ call'.name = "get_last_message") =>
            (ret'.kind = "message" /\ ret'.msgs = ret.msgs)
       /\ (call.name = "add_message" /\ call'.name = "get_last_timestamp") =>
            (ret'.kind = "timestamp" /\ ret'.nums = <<ret.msgs[1].timestamp>>)]_vars

\* get_last_message answered with a message whose add_message evicted
AppendThenLastWitness ==
    /\ call.name = "get_last_message"
    /\ ret.kind = "message"
    /\ ret.msgs[1].id = max_messages + 1
    /\ Len(messages) = max_messages

\* the page the description asks for: negative offset as zero, no message for
\* a limit of zero or less
ClampedPage(msgs, limit, offset) ==
    LET first == Max(offset, 0) + 1
        last == Min(Max(offset, 0) + limit, Len(msgs))
    IN IF limit <= 0 \/ first > last THEN <<>> ELSE SubSeq(msgs, first, last)

\* C7: get_messages(limit, offset) returns the held messages at indices
\* offset .. offset+limit-1 that exist, a negative offset counting as zero.
PageIsClamped ==
    call.name = "get_messages" =>
        /\ ret.kind = "list"
        /\ ret.msgs = ClampedPage(messages, call.ints[1], call.ints[2])

\* the text x contains q, letter case ignored; None contains nothing
TextMatches(x, q) == ~IsNone(x) /\ Contains(Lower(x.v), Lower(q))

\* the held messages matching q, oldest first
Matching(msgs, q) ==
    SelectSeq(msgs, LAMBDA m : TextMatches(m.user, q) \/ TextMatches(m.assistant, q))

\* C8: search_messages(q) returns exactly the held messages whose user or
\* assistant text contains q ignoring case, oldest first; all of them for "".
SearchReturnsMatches ==
    call.name = "search_messages" =>
        /\ ret.kind = "list"
        /\ ret.msgs = Matching(messages, call.vals[1].v)

\* C9 as stated: get_response never raises, and whenever the provider does
\* not answer it returns a canned reply rather than no reply.
AlwaysACannedReply ==
    (call.name = "get_response" /\ ~IsNone(call.vals[1])) =>
        /\ ret.kind = "value"
        /\ call.vals[2].v # <<"ok">> => ~IsNone(ret.val)

\* C9 amended: get_response never raises; a configured provider that fails
\* gives None; without a usable key a text input gets the fallback reply.
ResponderOutcome ==
    call.name = "get_response" =>
        /\ ret.kind = "value"
        /\ (~UsesFallback /\ call.vals[2].v # <<"ok">>) => IsNone(ret.val)
        /\ (~UsesFallback /\ call.vals[2].v = <<"ok">>) => ret.val = call.vals[3]
        /\ (UsesFallback /\ ~IsNone(call.vals[1])) => ~IsNone(ret.val)
        /\ (UsesFallback /\ IsNone(call.vals[1])) => IsNone(ret.val)

\* the configured provider answered a text with a status other than 200
ResponderOutcomeWitness ==
    /\ call.name = "get_response"
    /\ UsesPerplexity
    /\ ~IsNone(call.vals[1])
    /\ call.vals[2].v = <<"status">>
    /\ IsNone(ret.val)

\* C10: with handlers on several threads no reader sees add_message half
\* done, such as more messages than the capacity.
NoTornRead ==
    call.name = "get_all_messages" => Len(ret.msgs) <= max_messages

====
